---- MODULE Spec2Model ----
(***************************************************************************)
(* Model of the window-side task scheduler of txt-reader                   *)
(* (src/txt-reader.ts): TxtReader, TxtReaderTask and RequestMessage.       *)
(*                                                                         *)
(* A task object is named by its position in taskList (its identity); its  *)
(* id is a field computed by newTaskId.  The worker is the peer: `posted`  *)
(* is the list of requests handed to worker.postMessage.  Every callback   *)
(* the event loop runs later is a step of its own: the worker's 'message'  *)
(* listener, the zero-delay timers of runTask and the reaction jobs of     *)
(* the task promises.  A reaction job runs after the step that settled     *)
(* its promise, as a microtask or, with the promise polyfill the file      *)
(* imports, as a timer task: other steps may come in between.  Wall-clock  *)
(* values (startTime, timeTaken) and the console output of verboseLogging  *)
(* are not modelled.  getItertorConfigMessage is a pure function of the    *)
(* caller's configuration and has a specification of its own.              *)
(***************************************************************************)
EXTENDS Integers, Sequences, FiniteSets, TLC

\* ---------------------------------------------------------------- bounds
MaxTasks == 3
MaxObservers == 1

\* ------------------------------------------------------------- constants
NoFileMessage == "TxtReader has not loaded a file yet."
Files == {"A"}
PeerMessages == {"peer"}

\* values of Response.result, as [type, v]: typeof-like tag and a number
Num(n) == [type |-> "number", v |-> n]
NullResult == [type |-> "null", v |-> 0]
ProgressResults == {Num(-1), Num(0), Num(100), Num(101), [type |-> "string", v |-> 50]}
TerminalResults == {[type |-> "object", v |-> 7]}

VARIABLES
    taskList,        \* TxtReader.taskList: sequence of task objects
    runningTask,     \* TxtReader.runningTask: 0 (null) or a task
    queuedTaskList,  \* TxtReader.queuedTaskList: sequence of tasks
    file,            \* TxtReader.file: "null" or a file
    lineCount,       \* TxtReader.lineCount
    posted,          \* requests passed to worker.postMessage, in order
    timers,          \* pending window.setTimeout(.., 0) callbacks (their task)
    promises,        \* promises[t]: the Promise created by task t's constructor
    jobs,            \* promise reaction jobs not yet run
    answered,        \* number of posted requests the worker has finished
    observers,       \* number of then / catch / progress calls made by callers
    last,            \* what the latest step did (call, exception, observer)
    iteratorConfig,  \* an IIteratorConfig handed to getItertorConfigMessage
    configMessage    \* the IIteratorConfigMessage it returned, or Undefined

vars == <<taskList, runningTask, queuedTaskList, file, lineCount, posted,
          timers, promises, jobs, answered, observers, last, iteratorConfig, configMessage>>

marshalVars == <<iteratorConfig, configMessage>>

Tasks == 1..Len(taskList)

\* ---------------------------------------------------------- constructors
\* data is "Error" (an Error object) or "payload" (anything else)
RequestMessage(action, data) == [action |-> action, data |-> data, taskId |-> 0]

TxtReaderTask(id, reqMsg) ==
    [id |-> id,
     requestMessage |-> [reqMsg EXCEPT !.taskId = id],
     state |-> "Initialized",
     onProgress |-> "null",
     promise |-> TRUE,          \* this.promise / resolve / reject still referenced
     completes |-> 0,           \* number of complete() calls applied to the task
     outcomes |-> {}]           \* resolve / reject calls made on its promise

NewPromise == [status |-> "pending", message |-> "", result |-> NullResult, reactions |-> <<>>]

\* last: op is the step taken (an entry point, "then", "catch", "progress",
\* "message", "timer" or "job") and task the task it concerned (for "message"
\* and "timer" the task that was running when the callback started);
\* responseId is the taskId of the Response a "message" or "timer" step handled
\* and handled the branch the listener took with it; thrown is the exception
\* that left the step; invoked is the caller's observer the step called
\* ("progress", "then" or "catch") with message / result as its argument.
NoStep == [op |-> "init", task |-> 0, responseId |-> 0, handled |-> "none",
           thrown |-> "none", invoked |-> "none", message |-> "", result |-> NullResult]

Step(op, t) == [NoStep EXCEPT !.op = op, !.task = t]

\* newTaskId without the increment
newTaskIdNoIncrement ==
    LET taskListLength == Len(taskList)
    IN IF taskListLength = 0 THEN 1 ELSE taskList[taskListLength].id

newTaskId ==
    LET taskListLength == Len(taskList)
    IN IF taskListLength = 0 THEN 1 ELSE taskList[taskListLength].id + 1

\* ------------------------------------------------------------------ Init
Undefined == [type |-> "undefined", v |-> 0]

\* the reader after its constructor
InitReader ==
    /\ taskList = <<>>
    /\ runningTask = 0
    /\ queuedTaskList = <<>>
    /\ file = "null"
    /\ lineCount = 0
    /\ posted = <<>>
    /\ timers = <<>>
    /\ promises = <<>>
    /\ jobs = <<>>
    /\ answered = 0
    /\ observers = 0
    /\ last = NoStep

Init ==
    /\ InitReader
    /\ iteratorConfig = Undefined
    /\ configMessage = Undefined

\* ------------------------------------------------------- promise helpers
\* promise.then(cb) / promise.catch(cb) on promise p of task t: a reaction is
\* recorded while p is pending; on a settled p the matching job is queued.
Reaction(kind, cb, f) == [kind |-> kind, cb |-> cb, file |-> f]

Job(t, r, p) ==
    [task |-> t, kind |-> r.kind, cb |-> r.cb, file |-> r.file,
     message |-> p.message, result |-> p.result]

\* then and catch handed to the wrong side of the promise
MatchesSwapped(kind, status) ==
    \/ kind = "catch" /\ status = "fulfilled"
    \/ kind = "then" /\ status = "rejected"

Matches(kind, status) ==
    \/ kind = "then" /\ status = "fulfilled"
    \/ kind = "catch" /\ status = "rejected"

RECURSIVE JobsOf(_, _, _)
JobsOf(t, p, rs) ==
    IF rs = <<>> THEN <<>>
    ELSE (IF Matches(Head(rs).kind, p.status) THEN <<Job(t, Head(rs), p)>> ELSE <<>>)
         \o JobsOf(t, p, Tail(rs))

\* resolve(value) or reject(reason) of a pending promise; its reactions become
\* jobs (JobsOf) and are dropped
Settle(p, status, message, result) ==
    [p EXCEPT !.status = status, !.message = message, !.result = result, !.reactions = <<>>]

\* ------------------------------------------------------------ scheduler
\* runTask posting every request, an Error as well
RunTaskAlwaysPosts(tl, t, tm) ==
    /\ runningTask' = t
    /\ posted' = Append(posted, tl[t].requestMessage)
    /\ timers' = IF tl[t].requestMessage.data # "Error" THEN tm ELSE Append(tm, t)
    /\ taskList' = [tl EXCEPT ![t].state = "Running"]

\* runTask rejecting a request that carries an Error on the spot, without a timer
RunTaskRejectsAtOnce(tl, t, tm) ==
    /\ runningTask' = t
    /\ timers' = tm
    /\ IF tl[t].requestMessage.data # "Error"
       THEN /\ posted' = Append(posted, tl[t].requestMessage)
            /\ taskList' = [tl EXCEPT ![t].state = "Running"]
       ELSE /\ UNCHANGED posted
            /\ taskList' = [tl EXCEPT ![t].state = "Completed", ![t].completes = @ + 1,
                                      ![t].outcomes = @ \cup {"rejected"}]

\* runTask(task); tl and tm are the task list and the timer list it starts from
RunTask(tl, t, tm) ==
    /\ runningTask' = t
    /\ IF tl[t].requestMessage.data # "Error"
       THEN /\ posted' = Append(posted, tl[t].requestMessage)
            /\ timers' = tm
       ELSE /\ timers' = Append(tm, t)
            /\ UNCHANGED posted
    /\ taskList' = [tl EXCEPT ![t].state = "Running"]

\* newTask setting the state to Queued after runTask as well
NewTaskMarksQueued(action, data, thens) ==
    LET reqMsg == RequestMessage(action, data)
        task == TxtReaderTask(newTaskId, reqMsg)
        tl == Append(taskList, task)
        t == Len(tl)
    IN /\ promises' = Append(promises, [NewPromise EXCEPT !.reactions = thens])
       /\ taskList' = [tl EXCEPT ![t].state = "Queued"]
       /\ IF runningTask = 0
          THEN /\ runningTask' = t
               /\ posted' = IF data # "Error" THEN Append(posted, tl[t].requestMessage)
                                               ELSE posted
               /\ timers' = IF data # "Error" THEN timers ELSE Append(timers, t)
               /\ UNCHANGED queuedTaskList
          ELSE /\ queuedTaskList' = Append(queuedTaskList, t)
               /\ UNCHANGED <<runningTask, posted, timers>>
       /\ UNCHANGED <<jobs, answered, observers>>

\* newTask posting the request of a task it queues
NewTaskPostsQueued(action, data, thens) ==
    LET reqMsg == RequestMessage(action, data)
        task == TxtReaderTask(newTaskId, reqMsg)
        tl == Append(taskList, task)
        t == Len(tl)
    IN /\ promises' = Append(promises, [NewPromise EXCEPT !.reactions = thens])
       /\ IF runningTask = 0
          THEN /\ RunTask(tl, t, timers)
               /\ UNCHANGED queuedTaskList
          ELSE /\ queuedTaskList' = Append(queuedTaskList, t)
               /\ taskList' = [tl EXCEPT ![t].state = "Queued"]
               /\ posted' = IF data # "Error" THEN Append(posted, tl[t].requestMessage)
                                               ELSE posted
               /\ UNCHANGED <<runningTask, timers>>
       /\ UNCHANGED <<jobs, answered, observers>>

\* newTask running the task whether or not another one is running
NewTaskAlwaysRuns(action, data, thens) ==
    LET reqMsg == RequestMessage(action, data)
        task == TxtReaderTask(newTaskId, reqMsg)
        tl == Append(taskList, task)
        t == Len(tl)
    IN /\ promises' = Append(promises, [NewPromise EXCEPT !.reactions = thens])
       /\ RunTask(tl, t, timers)
       /\ UNCHANGED <<queuedTaskList, jobs, answered, observers>>

\* newTask(action, data), followed by the .then(..) some entry points chain
NewTask(action, data, thens) ==
    LET reqMsg == RequestMessage(action, data)
        task == TxtReaderTask(newTaskId, reqMsg)
        tl == Append(taskList, task)
        t == Len(tl)
    IN /\ promises' = Append(promises, [NewPromise EXCEPT !.reactions = thens])
       /\ IF runningTask = 0
          THEN /\ RunTask(tl, t, timers)
               /\ UNCHANGED queuedTaskList
          ELSE /\ queuedTaskList' = Append(queuedTaskList, t)
               /\ taskList' = [tl EXCEPT ![t].state = "Queued"]
               /\ UNCHANGED <<runningTask, posted, timers>>
       /\ UNCHANGED <<jobs, answered, observers>>

\* completeTask leaving the completed task in the running slot
RunNextTaskKeepsRunning(tl, tm) ==
    IF Len(queuedTaskList) > 0
    THEN /\ RunTask(tl, Head(queuedTaskList), tm)
         /\ queuedTaskList' = Tail(queuedTaskList)
    ELSE /\ taskList' = tl
         /\ timers' = tm
         /\ UNCHANGED <<runningTask, queuedTaskList, posted>>

\* runNextTask taking the newest queued task (pop) instead of the oldest (shift)
RunNextTaskPops(tl, tm) ==
    IF Len(queuedTaskList) > 0
    THEN /\ RunTask(tl, queuedTaskList[Len(queuedTaskList)], tm)
         /\ queuedTaskList' = SubSeq(queuedTaskList, 1, Len(queuedTaskList) - 1)
    ELSE /\ runningTask' = 0
         /\ taskList' = tl
         /\ timers' = tm
         /\ UNCHANGED <<queuedTaskList, posted>>

\* completeTask freeing the slot without running the next queued task
RunNextTaskForgets(tl, tm) ==
    /\ runningTask' = 0
    /\ taskList' = tl
    /\ timers' = tm
    /\ UNCHANGED <<queuedTaskList, posted>>

\* this.runningTask = null of completeTask, then runNextTask()
RunNextTask(tl, tm) ==
    IF Len(queuedTaskList) > 0
    THEN /\ RunTask(tl, Head(queuedTaskList), tm)
         /\ queuedTaskList' = Tail(queuedTaskList)
    ELSE /\ runningTask' = 0
         /\ taskList' = tl
         /\ timers' = tm
         /\ UNCHANGED <<queuedTaskList, posted>>

\* task.complete(response): the task record after the call
Complete(task, response) ==
    [task EXCEPT !.state = "Completed",
                 !.completes = @ + 1,
                 !.outcomes = IF task.promise
                              THEN @ \cup {IF response.success THEN "fulfilled" ELSE "rejected"}
                              ELSE @,
                 !.promise = FALSE]

\* complete() calls this.resolve / this.reject, which dispose() has set to null
CompleteThrows == runningTask # 0 /\ ~taskList[runningTask].promise

\* completeTask(response); tm is the timer list it starts from
CompleteTask(response, tm) ==
    IF runningTask = 0
    THEN /\ timers' = tm
         /\ UNCHANGED <<taskList, runningTask, queuedTaskList, posted, promises, jobs>>
    ELSE LET t == runningTask
             tl == [taskList EXCEPT ![t] = Complete(taskList[t], response)]
             p == IF promises[t].status = "pending"
                  THEN Settle(promises[t],
                              IF response.success THEN "fulfilled" ELSE "rejected",
                              response.message, response.result)
                  ELSE promises[t]
         IN IF CompleteThrows
            THEN /\ taskList' = tl
                 /\ timers' = tm
                 /\ UNCHANGED <<runningTask, queuedTaskList, posted, promises, jobs>>
            ELSE /\ promises' = [promises EXCEPT ![t] = p]
                 /\ jobs' = IF promises[t].status = "pending"
                            THEN jobs \o JobsOf(t, p, promises[t].reactions)
                            ELSE jobs
                 /\ RunNextTask(tl, tm)

\* the progress check without the test of the value's type
ValidProgressNoType(result) == result.v >= 0 /\ result.v <= 100

\* the progress check of the message listener
ValidProgress(result) == result.type = "number" /\ result.v >= 0 /\ result.v <= 100

\* the listener without its task id check
IdMatchesAlways(response) == TRUE

\* the task id check of the message listener
IdMatches(response) == response.taskId = taskList[runningTask].id

\* the listener without its test of this.runningTask === null: reading
\* this.runningTask.id throws
ListenerNoNullCheck(response) ==
    LET step == [Step("message", runningTask) EXCEPT !.responseId = response.taskId]
    IN
    /\ UNCHANGED <<file, lineCount>>
    /\ IF runningTask = 0
       THEN /\ last' = [step EXCEPT !.thrown = "TypeError"]
            /\ UNCHANGED <<taskList, runningTask, queuedTaskList, posted, timers, promises, jobs>>
       ELSE IF ~IdMatches(response)
       THEN /\ last' = [step EXCEPT !.thrown = "mismatch"]
            /\ UNCHANGED <<taskList, runningTask, queuedTaskList, posted, timers, promises, jobs>>
       ELSE IF response.done
       THEN /\ CompleteTask(response, timers)
            /\ last' = [step EXCEPT !.handled = "terminal",
                                    !.thrown = IF CompleteThrows THEN "TypeError" ELSE "none"]
       ELSE /\ UNCHANGED <<taskList, runningTask, queuedTaskList, posted, timers, promises, jobs>>
            /\ IF ValidProgress(response.result)
               THEN last' = [step EXCEPT !.handled = "progress", !.result = response.result,
                                        !.invoked = IF taskList[runningTask].onProgress # "null"
                                                    THEN "progress" ELSE "none"]
               ELSE last' = [step EXCEPT !.handled = "progress", !.result = response.result,
                                        !.thrown = "unknown"]

\* the worker's 'message' listener, applied to event.data
Listener(response) ==
    LET step == [Step("message", runningTask) EXCEPT !.responseId = response.taskId]
    IN
    /\ UNCHANGED <<file, lineCount>>
    /\ IF runningTask = 0
       THEN /\ last' = step
            /\ UNCHANGED <<taskList, runningTask, queuedTaskList, posted, timers, promises, jobs>>
       ELSE IF ~IdMatches(response)
       THEN /\ last' = [step EXCEPT !.thrown = "mismatch"]
            /\ UNCHANGED <<taskList, runningTask, queuedTaskList, posted, timers, promises, jobs>>
       ELSE IF response.done
       THEN /\ CompleteTask(response, timers)
            /\ last' = [step EXCEPT !.handled = "terminal",
                                    !.thrown = IF CompleteThrows THEN "TypeError" ELSE "none"]
       ELSE /\ UNCHANGED <<taskList, runningTask, queuedTaskList, posted, timers, promises, jobs>>
            /\ IF ValidProgress(response.result)
               THEN last' = [step EXCEPT !.handled = "progress", !.result = response.result,
                                        !.invoked = IF taskList[runningTask].onProgress # "null"
                                                    THEN "progress" ELSE "none"]
               ELSE last' = [step EXCEPT !.handled = "progress", !.result = response.result,
                                        !.thrown = "unknown"]

\* ------------------------------------------------------------- the peer
\* event.data of a message event; success only matters when done is TRUE
Responses ==
    [taskId : 1..MaxTasks, success : BOOLEAN, done : {TRUE}, message : PeerMessages,
     result : TerminalResults]
    \cup
    [taskId : 1..MaxTasks, success : {FALSE}, done : {FALSE}, message : PeerMessages,
     result : ProgressResults]

\* a worker that honours the message contract: it works on the oldest request
\* it has not finished, reports progress in [0,100] and then one terminal
\* response, all with that request's taskId
PeerResponds ==
    /\ UNCHANGED marshalVars
    /\ answered < Len(posted)
    /\ \E response \in Responses :
          /\ response.taskId = posted[answered + 1].taskId
          /\ IF response.done
             THEN answered' = answered + 1
             ELSE /\ ValidProgress(response.result)
                  /\ UNCHANGED answered
          /\ Listener(response)
    /\ UNCHANGED observers

\* a worker bound by nothing: any Response at any time
PeerSends ==
    /\ UNCHANGED marshalVars
    /\ \E response \in Responses : Listener(response)
    /\ UNCHANGED <<answered, observers>>

\* the callback runTask passed to window.setTimeout(.., 0)
TimerFires ==
    /\ UNCHANGED marshalVars
    /\ timers # <<>>
    /\ LET t == Head(timers)
           response == [success |-> FALSE, message |-> NoFileMessage, result |-> NullResult,
                        done |-> TRUE, taskId |-> taskList[t].id]
       IN /\ CompleteTask(response, Tail(timers))
          /\ last' = [Step("timer", runningTask) EXCEPT
                          !.responseId = response.taskId,
                          !.handled = IF runningTask # 0 THEN "terminal" ELSE "none",
                          !.thrown = IF CompleteThrows THEN "TypeError" ELSE "none"]
    /\ UNCHANGED <<file, lineCount, answered, observers>>

\* ----------------------------------------------------------- entry points
CanCreate == Len(taskList) < MaxTasks

\* sniffLines, setChunkSize, enableVerbose, getSporadicLines and
\* iterateSporadicLines all are newTask(action, payload) and differ in the
\* action string and the payload alone; sniffLines stands for the five
PlainActions == {"sniffLines"}

PlainCall ==
    /\ UNCHANGED marshalVars
    /\ CanCreate
    /\ \E action \in PlainActions :
          /\ NewTask(action, "payload", <<>>)
          /\ last' = Step(action, Len(taskList) + 1)
    /\ UNCHANGED <<file, lineCount>>

\* loadFile keeping the file of an earlier load until the new one is loaded
LoadFileKeepsFile ==
    /\ UNCHANGED marshalVars
    /\ CanCreate
    /\ \E f \in Files : NewTask("loadFile", "payload", <<Reaction("then", "loadFile", f)>>)
    /\ UNCHANGED <<file, lineCount>>
    /\ last' = Step("loadFile", Len(taskList) + 1)

LoadFile ==
    /\ UNCHANGED marshalVars
    /\ CanCreate
    /\ \E f \in Files : NewTask("loadFile", "payload", <<Reaction("then", "loadFile", f)>>)
    /\ file' = "null"
    /\ lineCount' = 0
    /\ last' = Step("loadFile", Len(taskList) + 1)

GetLines2 ==
    /\ UNCHANGED marshalVars
    /\ CanCreate
    /\ IF file = "null"
       THEN NewTask("getLines2", "Error", <<>>)
       ELSE NewTask("getLines2", "payload", <<Reaction("then", "getLines2", "null")>>)
    /\ last' = Step("getLines2", Len(taskList) + 1)
    /\ UNCHANGED <<file, lineCount>>

\* getLines without the test of this.file
GetLinesNoCheck ==
    /\ UNCHANGED marshalVars
    /\ CanCreate
    /\ NewTask("getLines", "payload", <<Reaction("then", "getLines", "null")>>)
    /\ last' = Step("getLines", Len(taskList) + 1)
    /\ UNCHANGED <<file, lineCount>>

GetLines ==
    /\ UNCHANGED marshalVars
    /\ CanCreate
    /\ IF file = "null"
       THEN NewTask("getLines", "Error", <<>>)
       ELSE NewTask("getLines", "payload", <<Reaction("then", "getLines", "null")>>)
    /\ last' = Step("getLines", Len(taskList) + 1)
    /\ UNCHANGED <<file, lineCount>>

IterateLines ==
    /\ UNCHANGED marshalVars
    /\ CanCreate
    /\ IF file = "null"
       THEN NewTask("getLines", "Error", <<>>)
       ELSE NewTask("iterateLines", "payload", <<>>)
    /\ last' = Step("iterateLines", Len(taskList) + 1)
    /\ UNCHANGED <<file, lineCount>>

\* ------------------------------------------------- the task's own methods
\* task.then(cb) / task.catch(cb) with a caller's callback
Register(t, kind) ==
    /\ UNCHANGED marshalVars
    /\ observers < MaxObservers
    /\ observers' = observers + 1
    /\ IF taskList[t].promise
       THEN IF promises[t].status = "pending"
            THEN /\ promises' = [promises EXCEPT
                                    ![t].reactions = Append(@, Reaction(kind, "user", "null"))]
                 /\ UNCHANGED jobs
            ELSE /\ jobs' = IF Matches(kind, promises[t].status)
                            THEN Append(jobs, Job(t, Reaction(kind, "user", "null"), promises[t]))
                            ELSE jobs
                 /\ UNCHANGED promises
       ELSE UNCHANGED <<promises, jobs>>
    /\ last' = Step(kind, t)
    /\ UNCHANGED <<taskList, runningTask, queuedTaskList, file, lineCount, posted, timers,
                   answered>>

Then == \E t \in Tasks : Register(t, "then")

Catch == \E t \in Tasks : Register(t, "catch")

Progress ==
    \E t \in Tasks :
        /\ UNCHANGED marshalVars
        /\ observers < MaxObservers
        /\ observers' = observers + 1
        /\ taskList' = [taskList EXCEPT ![t].onProgress = "cb"]
        /\ last' = Step("progress", t)
        /\ UNCHANGED <<runningTask, queuedTaskList, file, lineCount, posted, timers,
                       promises, jobs, answered>>

\* ------------------------------------------------------ promise reactions
\* one reaction job: the callback handed to promise.then / promise.catch
RunJob ==
    /\ UNCHANGED marshalVars
    /\ jobs # <<>>
    /\ LET j == Head(jobs)
       IN /\ jobs' = Tail(jobs)
          /\ IF j.cb = "loadFile" /\ j.result.type # "null"
             THEN /\ file' = j.file
                  /\ lineCount' = j.result.v
             ELSE UNCHANGED <<file, lineCount>>
          /\ last' = IF j.cb = "user"
                     THEN [Step("job", j.task) EXCEPT !.invoked = j.kind,
                               !.message = j.message, !.result = j.result]
                     ELSE Step("job", j.task)
    /\ UNCHANGED <<taskList, runningTask, queuedTaskList, posted, timers, promises,
                   answered, observers>>

\* ------------------------------------------------------ closure marshaller
\* JavaScript values as [type, v]: a function (v its body), a string, a number,
\* null, undefined, or an object (v its own enumerable properties in for-in
\* order, each [key, value])
Fn(body) == [type |-> "function", v |-> body]
Str(text) == [type |-> "string", v |-> text]
Null == [type |-> "null", v |-> 0]
Obj(props) == [type |-> "object", v |-> props]
Prop(key, value) == [key |-> key, value |-> value]

\* typeof value
TypeOf(value) == IF value.type = "null" THEN "object" ELSE value.type

\* !value
Falsy(value) ==
    \/ value.type \in {"undefined", "null"}
    \/ value.type = "number" /\ value.v = 0
    \/ value.type = "string" /\ value.v = ""

\* fn.toString(): the source text of a function
toString(fn) == Str("function (x) { " \o fn.v \o " }")

\* the path of property i written with dots
PathOfDotted(path, i) == path \o "." \o i

\* `${path}["${i}"]`
PathOf(path, i) == path \o "[\"" \o i \o "\"]"

RECURSIVE functionToString(_, _, _)
RECURSIVE ForIn(_, _, _, _)

\* for (let i in obj) { .. } of functionToString from the k-th property on;
\* props are the properties of obj and functionMap the list pushed to so far
ForIn(props, k, path, functionMap) ==
    IF k > Len(props)
    THEN [obj |-> props, functionMap |-> functionMap]
    ELSE LET i == props[k].key
             pathi == PathOf(path, i)
         IN IF TypeOf(props[k].value) = "function"
            THEN ForIn([props EXCEPT ![k].value = toString(@)], k + 1, path,
                       Append(functionMap, pathi))
            ELSE IF TypeOf(props[k].value) = "object"
            THEN LET r == functionToString(props[k].value, pathi, functionMap)
                 IN ForIn([props EXCEPT ![k].value = r.obj], k + 1, path, r.functionMap)
            ELSE ForIn(props, k + 1, path, functionMap)

\* functionToString(obj, entry): the value returned and functionMap after it;
\* for-in over null runs no iteration
functionToString(obj, entry, functionMap) ==
    IF TypeOf(obj) = "object" /\ obj.type # "null"
    THEN LET r == ForIn(obj.v, 1, entry, functionMap)
         IN [obj |-> Obj(r.obj), functionMap |-> r.functionMap]
    ELSE [obj |-> obj, functionMap |-> functionMap]

getItertorConfigMessage(config) ==
    LET r == functionToString(config.scope, "", <<>>)
    IN [eachLine |-> toString(config.eachLine),
        scope |-> IF Falsy(r.obj) THEN Obj(<<>>) ELSE r.obj,
        functionMap |-> r.functionMap]

\* the configurations handed to the marshaller
Functions == {Fn("return x * 2;"), Fn("return x + 1;")}

Leaves == Functions \cup {Num(3), Num(0), Str("a"), Null}

InnerObjects == {Obj(<<>>)} \cup {Obj(<<Prop("double", value)>>) : value \in Leaves}

Scopes ==
    {Undefined, Null, Obj(<<>>)}
    \cup {Obj(<<Prop("util", u)>>) : u \in Leaves \cup InnerObjects}
    \cup {Obj(<<Prop("util", u), Prop("factor", value)>>) :
              u \in Leaves \cup InnerObjects, value \in Leaves}

Configs == [eachLine : Functions, scope : Scopes]

\* a caller's iterator configuration goes through getItertorConfigMessage, as
\* in loadFile, iterateLines and iterateSporadicLines
InitMarshal ==
    /\ InitReader
    /\ iteratorConfig \in Configs
    /\ configMessage = Undefined

Marshal ==
    /\ configMessage = Undefined
    /\ configMessage' = getItertorConfigMessage(iteratorConfig)
    /\ UNCHANGED <<taskList, runningTask, queuedTaskList, file, lineCount, posted, timers,
                   promises, jobs, answered, observers, last, iteratorConfig>>

\* ---------------------------------------------------------- specifications
Calls == PlainCall \/ LoadFile \/ GetLines2 \/ GetLines \/ IterateLines

Observers == Then \/ Catch \/ Progress

\* callers, observers and a worker that may send anything
Next == Calls \/ Observers \/ PeerSends \/ TimerFires \/ RunJob

Spec == Init /\ [][Next]_vars

\* the same without callers' observers: the scheduler alone
NextScheduler == Calls \/ PeerSends \/ TimerFires \/ RunJob

SpecScheduler == Init /\ [][NextScheduler]_vars

\* callers, observers and a worker that honours the message contract
NextConforming == Calls \/ Observers \/ PeerResponds \/ TimerFires \/ RunJob

SpecConforming == Init /\ [][NextConforming]_vars

\* the scenario of a fresh reader: loadFile(A) is the first call and getLines
\* the second, made before the load task has completed; anything after that
FirstLoadFile == taskList = <<>> /\ LoadFile

ThenGetLines == Len(taskList) = 1 /\ taskList[1].state # "Completed" /\ GetLines

LaterCalls == Len(taskList) >= 2 /\ Calls

NextScenario == FirstLoadFile \/ ThenGetLines \/ LaterCalls \/ PeerSends \/ TimerFires \/ RunJob

SpecScenario == Init /\ [][NextScenario]_vars

\* the conforming worker sends the terminal Response of the request it works on
PeerCompletes == PeerResponds /\ answered' = answered + 1

\* the scheduler alone with the conforming worker
NextFair == Calls \/ PeerResponds \/ TimerFires \/ RunJob

\* the event loop runs every pending timer callback, and the conforming worker
\* ends every request it has received
SpecFair ==
    /\ Init
    /\ [][NextFair]_vars
    /\ WF_vars(TimerFires)
    /\ WF_vars(PeerCompletes)

\* the marshaller alone, applied once to each configuration
NextMarshal == Marshal

SpecMarshal == InitMarshal /\ [][NextMarshal]_vars

\* ------------------------------------------------------------------ claims
Posted(t) == \E i \in 1..Len(posted) : posted[i].taskId = taskList[t].id

TimerPending(t) == \E i \in 1..Len(timers) : timers[i] = t

Running == {t \in Tasks : taskList[t].state = "Running"}

\* C1: at most one task is Running, and a Running task is the one in the
\* running slot
OneRunning ==
    /\ Cardinality(Running) <= 1
    /\ \A t \in Running : runningTask = t

OneRunningWitness ==
    /\ runningTask # 0
    /\ Len(queuedTaskList) >= 1
    /\ \E t \in Tasks : taskList[t].state = "Completed"
    /\ last.op = "timer"

\* C2: complete() is applied to a task at most once and at most one of
\* resolve / reject is ever called on its promise
SettlesOnce ==
    \A t \in Tasks :
        /\ taskList[t].completes <= 1
        /\ Cardinality(taskList[t].outcomes) <= 1

\* a timer made for task t fires after a Response forged for t completed it
SettlesOnceWitness ==
    /\ last.op = "timer"
    /\ \E t \in Tasks :
          /\ taskList[t].id = last.responseId
          /\ last.task # t
          /\ taskList[t].completes = 1

\* C3: a then registered after the future is fulfilled, or a catch after it is
\* rejected, has its observer called: the call leaves a job for it
LateObserverServed ==
    \A t \in Tasks :
        (last.op \in {"then", "catch"} /\ last.task = t /\ Matches(last.op, promises[t].status))
        => \E i \in 1..Len(jobs) :
              jobs[i].task = t /\ jobs[i].cb = "user" /\ jobs[i].kind = last.op

\* C4 as claimed: in the scenario the get-lines task (task 2) is Queued and not
\* posted until the load task (task 1) completes, and from then on is Running
\* or Completed with its Request posted
QueuedGetLinesPosted ==
    Len(taskList) >= 2 =>
        /\ taskList[1].state # "Completed"
              => taskList[2].state = "Queued" /\ ~Posted(2)
        /\ taskList[1].state = "Completed"
              => taskList[2].state \in {"Running", "Completed"} /\ Posted(2)

\* C4 as amended: in the scenario the get-lines task is Queued until the load
\* task completes and Running or Completed from then on, but it carries the
\* Error of a reader without a file: its Request is never posted, and the timer
\* that rejects it is set when it becomes Running and not before
QueuedGetLinesRejectedLocally ==
    Len(taskList) >= 2 =>
        /\ taskList[2].requestMessage.data = "Error"
        /\ ~Posted(2)
        /\ taskList[1].state # "Completed"
              => taskList[2].state = "Queued" /\ ~TimerPending(2)
        /\ taskList[1].state = "Completed"
              => taskList[2].state \in {"Running", "Completed"}
        /\ taskList[2].state = "Running" => TimerPending(2)

\* the step that handled the load task's terminal Response dispatched task 2
QueuedGetLinesWitness ==
    /\ Len(taskList) >= 2
    /\ last.op = "message" /\ last.task = 1 /\ last.handled = "terminal"
    /\ taskList[1].state = "Completed"
    /\ taskList[2].state = "Running"

NoLoadFulfilled ==
    \A t \in Tasks :
        taskList[t].requestMessage.action = "loadFile" => promises[t].status # "fulfilled"

\* C5: with a worker that honours the contract, a getLines call made while no
\* load task has been fulfilled creates a task carrying the Error; such a task
\* is never posted, is never fulfilled and, once Completed, is rejected with
\* "TxtReader has not loaded a file yet."
GetLinesBeforeLoadRejected ==
    /\ (last.op = "getLines" /\ NoLoadFulfilled)
          => taskList[last.task].requestMessage.data = "Error"
    /\ \A t \in Tasks :
          (taskList[t].requestMessage.action = "getLines"
              /\ taskList[t].requestMessage.data = "Error")
          => /\ ~Posted(t)
             /\ promises[t].status # "fulfilled"
             /\ taskList[t].state = "Running" => TimerPending(t)
             /\ taskList[t].state = "Completed"
                   => promises[t].status = "rejected" /\ promises[t].message = NoFileMessage

\* the timer of one such task has rejected it, and that step has dispatched
\* the next one from the queue
GetLinesBeforeLoadWitness ==
    /\ Len(taskList) >= 3
    /\ last.op = "timer" /\ last.task = 2
    /\ \A t \in {2, 3} :
          /\ taskList[t].requestMessage.action = "getLines"
          /\ taskList[t].requestMessage.data = "Error"
          /\ ~Posted(t)
    /\ promises[2].status = "rejected"
    /\ promises[2].message = NoFileMessage
    /\ runningTask = 3
    /\ TimerPending(3)

\* C6: the ids are 1, 2, 3, ... in the order of the calls, and each Request
\* carries the id of its task
IdsCountCalls ==
    /\ \A t \in Tasks :
          taskList[t].id = t /\ taskList[t].requestMessage.taskId = taskList[t].id
    /\ \A i \in 1..Len(posted) :
          \E t \in Tasks : posted[i] = taskList[t].requestMessage /\ posted[i].taskId = t

IdsCountCallsWitness ==
    /\ Len(taskList) >= 3
    /\ promises[1].status = "fulfilled"
    /\ taskList[2].requestMessage.data = "Error" /\ promises[2].status = "rejected"
    /\ taskList[3].state \in {"Queued", "Running"}

RECURSIVE Ascending(_)
Ascending(q) == Len(q) < 2 \/ (q[1] < q[2] /\ Ascending(Tail(q)))

\* C7: the pending queue holds exactly the Queued tasks, each once, in the order
\* of their creation, and a step that dispatches from the queue takes its head
QueueIsFifo ==
    /\ [](/\ {queuedTaskList[i] : i \in 1..Len(queuedTaskList)}
               = {t \in Tasks : taskList[t].state = "Queued"}
          /\ Ascending(queuedTaskList))
    /\ [][queuedTaskList' # queuedTaskList /\ Len(queuedTaskList') <= Len(queuedTaskList)
            => /\ queuedTaskList # <<>>
               /\ runningTask' = Head(queuedTaskList)
               /\ queuedTaskList' = Tail(queuedTaskList)
               /\ taskList'[runningTask'].state = "Running"]_vars

\* task 2 was taken from the queue <<2, 3>>
QueueIsFifoWitness ==
    /\ Len(taskList) >= 3
    /\ taskList[1].state = "Completed"
    /\ runningTask = 2
    /\ queuedTaskList = <<3>>
    /\ last.op \in {"message", "timer"}

InRange(result) == result.type = "number" /\ result.v >= 0 /\ result.v <= 100

\* C8: a progress observer is called with a number in [0,100] only; a progress
\* Response for the running task with any other result throws, calls no
\* observer and leaves the task Running, in the running slot, its promise pending
ProgressChecked ==
    /\ last.invoked = "progress" => InRange(last.result)
    /\ last.handled = "progress" =>
          /\ runningTask = last.task
          /\ taskList[last.task].state = "Running"
          /\ promises[last.task].status = "pending"
          /\ IF InRange(last.result)
             THEN /\ last.thrown = "none"
                  /\ last.invoked = "progress" <=> taskList[last.task].onProgress # "null"
             ELSE /\ last.thrown = "unknown"
                  /\ last.invoked = "none"

ProgressCheckedWitness ==
    /\ last.handled = "progress"
    /\ last.thrown = "unknown"
    /\ last.result = [type |-> "string", v |-> 50]
    /\ taskList[last.task].onProgress # "null"

\* C9: a progress observer is never called for a task whose future has settled
NoProgressAfterSettle ==
    last.invoked = "progress" =>
        /\ promises[last.task].status = "pending"
        /\ taskList[last.task].state = "Running"

\* a Response carrying the id of a settled task with a progress observer
\* arrives while another task is running
NoProgressAfterSettleWitness ==
    /\ last.op = "message"
    /\ last.task # 0
    /\ \E t \in Tasks :
          /\ t # last.task
          /\ taskList[t].id = last.responseId
          /\ taskList[t].state = "Completed"
          /\ taskList[t].onProgress # "null"
          /\ promises[t].status # "pending"

\* C10: a Response whose taskId is not the running task's id throws and changes
\* nothing else: no task, slot, queue, promise, job, timer or post, no observer
MismatchIsFatal ==
    [][(last'.op = "message" /\ last'.task # 0
            /\ last'.responseId # taskList[last'.task].id)
         => /\ last'.thrown = "mismatch"
            /\ last'.invoked = "none"
            /\ last'.task = runningTask
            /\ UNCHANGED <<taskList, runningTask, queuedTaskList, file, lineCount, posted,
                           timers, promises, jobs>>]_vars

MismatchIsFatalWitness ==
    /\ last.op = "message"
    /\ last.thrown = "mismatch"
    /\ Len(queuedTaskList) >= 1
    /\ taskList[last.task].onProgress # "null"

CallOps == {"sniffLines", "loadFile", "getLines2", "getLines", "iterateLines"}

\* the tasks a step dispatched: Running after it and not before
Dispatched == {t \in 1..Len(taskList') : taskList'[t].state = "Running"
                                          /\ (t \in Tasks => taskList[t].state # "Running")}

\* C11: the task an entry point returns is Running or Queued with its promise
\* pending and complete() not yet applied, a task with an Error included; and
\* the step that dispatches a task, whether the call that created it or the
\* handler that took it from the queue, leaves its promise pending, with the
\* timer that will reject it set when it carries an Error
ReturnsPending ==
    /\ [](last.op \in CallOps =>
             /\ last.task = Len(taskList)
             /\ taskList[last.task].state \in {"Running", "Queued"}
             /\ taskList[last.task].completes = 0
             /\ taskList[last.task].outcomes = {}
             /\ promises[last.task].status = "pending")
    /\ [][\A t \in Dispatched :
             /\ taskList'[t].completes = 0
             /\ promises'[t].status = "pending"
             /\ last'.op \in CallOps \cup {"message", "timer"}
             /\ taskList'[t].requestMessage.data = "Error"
                   => \E i \in 1..Len(timers') : timers'[i] = t]_vars

\* getLines on a reader without a file has just returned its task: Running,
\* pending, its timer not yet fired
ReturnsPendingWitness ==
    /\ last.op = "getLines"
    /\ taskList[last.task].requestMessage.data = "Error"
    /\ taskList[last.task].state = "Running"
    /\ promises[last.task].status = "pending"
    /\ TimerPending(last.task)
    /\ \E t \in Tasks : taskList[t].state = "Completed"

\* number of requests posted with the id of task t
PostCount(t) == Cardinality({i \in 1..Len(posted) : posted[i].taskId = taskList[t].id})

\* C12: a task whose request carries no Error has no request posted while it is
\* Queued and exactly one once it is Running or Completed; a request is posted
\* only by the step that dispatches its task, and that step posts it once
OnePostPerTask ==
    /\ [](\A t \in Tasks :
             taskList[t].requestMessage.data # "Error"
             => PostCount(t) = IF taskList[t].state \in {"Running", "Completed"} THEN 1 ELSE 0)
    /\ [][posted' # posted
             => \E t \in Dispatched :
                   /\ taskList'[t].requestMessage.data # "Error"
                   /\ posted' = Append(posted, taskList'[t].requestMessage)]_vars
    /\ [][\A t \in Dispatched :
             taskList'[t].requestMessage.data # "Error"
             => posted' = Append(posted, taskList'[t].requestMessage)]_vars

\* task 1 answered, task 2 dispatched from the queue by that step and posted,
\* task 3 still Queued and not posted
OnePostPerTaskWitness ==
    /\ Len(taskList) >= 3
    /\ \A t \in 1..3 : taskList[t].requestMessage.data # "Error"
    /\ last.op = "message" /\ last.handled = "terminal" /\ last.task = 1
    /\ taskList[1].state = "Completed" /\ PostCount(1) = 1
    /\ taskList[2].state = "Running" /\ PostCount(2) = 1
    /\ taskList[3].state = "Queued" /\ PostCount(3) = 0

\* the configuration {eachLine: f, scope: {util: {double: g}, factor: 3}}
ExampleConfig ==
    [eachLine |-> Fn("return x + 1;"),
     scope |-> Obj(<<Prop("util", Obj(<<Prop("double", Fn("return x * 2;"))>>)),
                     Prop("factor", Num(3))>>)]

Marshalled == iteratorConfig = ExampleConfig /\ configMessage # Undefined

\* what the example's message holds besides functionMap: eachLine and
\* scope.util.double are source text, scope.factor is the number 3
ExampleSlots ==
    /\ configMessage.eachLine = Str("function (x) { return x + 1; }")
    /\ configMessage.scope
         = Obj(<<Prop("util", Obj(<<Prop("double", Str("function (x) { return x * 2; }"))>>)),
                 Prop("factor", Num(3))>>)

\* C13 as claimed: marshalling the example yields a functionMap of two paths,
\* one for eachLine and one for util.double, factor still 3 and both function
\* slots source text
TwoPathsMarshalled ==
    Marshalled => Len(configMessage.functionMap) = 2 /\ ExampleSlots

\* C13 as amended: marshalling the example yields a functionMap of one path,
\* ["util"]["double"], and none for eachLine, whose source text is the message's
\* eachLine field; factor is still 3 and util.double is source text
OnePathMarshalled ==
    Marshalled => configMessage.functionMap = <<"[\"util\"][\"double\"]">> /\ ExampleSlots

OnePathMarshalledWitness ==
    /\ Marshalled
    /\ Len(configMessage.functionMap) = 1
    /\ configMessage.scope.v[2] = Prop("factor", Num(3))

\* C14: whatever the worker sends, a terminal Response that completes a task,
\* received from the worker or made by a timer of runTask, carries the id of
\* the task it completes
CompletedByOwnResponse ==
    (last.op \in {"message", "timer"} /\ last.handled = "terminal")
        => last.responseId = taskList[last.task].id

Settled(t) == taskList[t].state = "Completed" /\ promises[t].status # "pending"

\* C15: with a worker that answers every request with one terminal Response of
\* the same taskId and timers that fire, every task created is eventually
\* Completed with its promise settled, and the running slot is never empty
\* while a task is Queued
AllTasksSettle ==
    /\ \A t \in 1..MaxTasks : (t \in Tasks) ~> (t \in Tasks /\ Settled(t))
    /\ [](runningTask = 0 => queuedTaskList = <<>>)

\* three tasks settled, one of them rejected by its timer and one fulfilled by
\* the worker after waiting in the queue
AllTasksSettleWitness ==
    /\ Len(taskList) = MaxTasks
    /\ \A t \in Tasks : Settled(t)
    /\ \E t \in Tasks : taskList[t].requestMessage.data = "Error" /\ promises[t].status = "rejected"
    /\ \E t \in Tasks : t > 1 /\ promises[t].status = "fulfilled"

\* C16: tasks are dispatched and completed in the order of their ids: while a
\* task is Running or Completed every task with a smaller id is Completed, and
\* a step dispatches at most one task, whose id is larger than that of every
\* task dispatched before
DispatchedInIdOrder ==
    /\ [](\A i, j \in Tasks :
             (taskList[i].id < taskList[j].id /\ taskList[j].state \in {"Running", "Completed"})
             => taskList[i].state = "Completed")
    /\ [][\A t \in Dispatched :
             /\ Dispatched = {t}
             /\ \A i \in Tasks :
                   IF taskList[i].id < taskList'[t].id
                   THEN taskList'[i].state = "Completed"
                   ELSE i = t \/ taskList'[i].state = "Queued"]_vars

\* the timer of task 1, a local failure, has dispatched task 2, a request for
\* the worker, while task 3, a local failure, waits
DispatchedInIdOrderWitness ==
    /\ Len(taskList) >= 3
    /\ last.op = "timer" /\ last.task = 1
    /\ taskList[1].requestMessage.data = "Error" /\ taskList[1].state = "Completed"
    /\ taskList[2].requestMessage.data # "Error" /\ taskList[2].state = "Running"
    /\ taskList[3].requestMessage.data = "Error" /\ taskList[3].state = "Queued"

\* C17: a task is created Queued or Running, and its state then changes only
\* from Queued to Running and from Running to Completed
StateMovesForward ==
    [][/\ \A t \in Tasks :
             \/ taskList'[t].state = taskList[t].state
             \/ taskList[t].state = "Queued" /\ taskList'[t].state = "Running"
             \/ taskList[t].state = "Running" /\ taskList'[t].state = "Completed"
       /\ \A t \in 1..Len(taskList') :
             t \notin Tasks => taskList'[t].state \in {"Queued", "Running"}
       /\ Len(taskList') >= Len(taskList)]_vars

\* the step that completed task 2 took task 3 from the queue and ran it
StateMovesForwardWitness ==
    /\ Len(taskList) >= 3
    /\ last.op \in {"message", "timer"} /\ last.task = 2 /\ last.handled = "terminal"
    /\ taskList[1].state = "Completed"
    /\ taskList[2].state = "Completed"
    /\ taskList[3].state = "Running"

\* C18 as claimed: a Response handled while no task is running is a fatal
\* protocol violation: the listener throws
IdleResponseIsFatal ==
    (last.op = "message" /\ last.task = 0) => last.thrown # "none"

\* C18 as amended: a Response handled while no task is running is ignored: the
\* listener returns without throwing and without calling an observer, and
\* nothing of the reader or of its tasks changes
IdleResponseIgnored ==
    [][(last'.op = "message" /\ last'.task = 0)
         => /\ runningTask = 0
            /\ last'.thrown = "none"
            /\ last'.invoked = "none"
            /\ last'.handled = "none"
            /\ UNCHANGED <<taskList, runningTask, queuedTaskList, file, lineCount, posted,
                           timers, promises, jobs>>]_vars

\* a second terminal Response for a task already completed arrives while
\* nothing is running
IdleResponseIgnoredWitness ==
    /\ last.op = "message" /\ last.task = 0
    /\ runningTask = 0
    /\ \E t \in Tasks : taskList[t].id = last.responseId /\ taskList[t].state = "Completed"

\* C19 as claimed: the then / catch observers of a task are called within the
\* step that handles its terminal Response
ObserversCalledByHandler ==
    last.invoked \in {"then", "catch"} => last.op \in {"message", "timer"}

\* C19 as amended: the step that handles a task's terminal Response calls no
\* then / catch observer; it settles the promise, leaves one job for each
\* observer registered for the outcome and dispatches the next queued task.
\* The observers are called by those jobs, in later steps, with the outcome
\* the promise was settled with
ObserversCalledByJobs ==
    /\ [](last.invoked \in {"then", "catch"} =>
             /\ last.op = "job"
             /\ taskList[last.task].state = "Completed"
             /\ promises[last.task].status
                   = (IF last.invoked = "then" THEN "fulfilled" ELSE "rejected")
             /\ last.message = promises[last.task].message
             /\ last.result = promises[last.task].result)
    /\ [][(last'.op \in {"message", "timer"} /\ last'.handled = "terminal")
            => /\ last'.invoked = "none"
               /\ promises[last'.task].status = "pending"
               /\ promises'[last'.task].status # "pending"
               /\ \A i \in 1..Len(promises[last'.task].reactions) :
                     LET r == promises[last'.task].reactions[i]
                     IN (r.cb = "user" /\ promises'[last'.task].status
                            = (IF r.kind = "then" THEN "fulfilled" ELSE "rejected"))
                        => \E k \in 1..Len(jobs') :
                              /\ jobs'[k].task = last'.task
                              /\ jobs'[k].cb = "user"
                              /\ jobs'[k].kind = r.kind
               /\ queuedTaskList # <<>> =>
                     /\ runningTask' = Head(queuedTaskList)
                     /\ taskList'[runningTask'].state = "Running"]_vars

\* the then observer of a task is called while the next task, dispatched by
\* the step that fulfilled it, is already Running
ObserversCalledByJobsWitness ==
    /\ last.op = "job" /\ last.invoked = "then"
    /\ runningTask > last.task
    /\ taskList[runningTask].state = "Running"

NeedsFile == {"getLines", "getLines2", "iterateLines"}

\* C20: loadFile unsets the file in the call itself; the file is set again only
\* by the fulfilment job of a load task; a getLines, getLines2 or iterateLines
\* call made while the file is unset, an earlier successful load
\* notwithstanding, creates a task carrying the Error, and no such task is ever
\* posted; the rejection of a load task sets no file
FileUnsetUntilLoaded ==
    /\ [](/\ last.op = "loadFile" => file = "null" /\ lineCount = 0
          /\ last.op \in NeedsFile =>
                (taskList[last.task].requestMessage.data = "Error" <=> file = "null")
          /\ \A t \in Tasks : taskList[t].requestMessage.data = "Error" => ~Posted(t))
    /\ [][file' # file =>
             \/ last'.op = "loadFile" /\ file' = "null"
             \/ /\ last'.op = "job"
                /\ taskList[last'.task].requestMessage.action = "loadFile"
                /\ promises[last'.task].status = "fulfilled"
                /\ file' \in Files]_vars
    /\ [][last'.op \in NeedsFile => file' = file]_vars

\* task 1 loaded a file and its fulfilment job has run; loadFile was called
\* again (task 2) and getLines, called before any further job, is a local
\* failure
FileUnsetUntilLoadedWitness ==
    /\ Len(taskList) = 3
    /\ taskList[1].requestMessage.action = "loadFile"
    /\ promises[1].status = "fulfilled"
    /\ jobs = <<>>
    /\ taskList[2].requestMessage.action = "loadFile"
    /\ last.op = "getLines" /\ last.task = 3
    /\ taskList[3].requestMessage.data = "Error"
    /\ file = "null"

====
